---- MODULE Spec2Model ----
(***************************************************************************)
(* Model of src/whisper_app.py (class WhisperApp): the open-ended capture  *)
(* session (start_recording / audio callback / stop_recording), the        *)
(* artifact write of stop_recording, load_model, transcribe and the two    *)
(* fixed-duration paths (record_and_transcribe, record_audio_only), run as *)
(* the program runs them: stop_recording on the Tk event thread, every     *)
(* other handler on a daemon thread of its own, the audio callback on the  *)
(* audio subsystem's thread.  Each action is one step of one thread        *)
(* between two accesses to shared state; action names and thread positions *)
(* carry the source line.  A thread standing at a showerror line has its   *)
(* message box on screen.  A thread that has ended is dropped from the     *)
(* state.                                                                  *)
(*                                                                         *)
(* get_input_devices and the conversion np.int16(x * 32767) are modelled   *)
(* on their own, each with a specification that draws its input.           *)
(*                                                                         *)
(* root.update() is modelled as having no effect on the modelled state.    *)
(***************************************************************************)
EXTENDS Integers, Sequences, FiniteSets, Bags, TLC

\* ------------------------------------------------------------------ bounds
MaxThreads == 3       \* background threads spawned in one run
MaxStarts == 2        \* start_recording threads among them
MaxChunks == 3        \* blocks the audio subsystem delivers in one run
SampleScale == 8      \* a sample k stands for the float k / SampleScale
MaxDevices == 3       \* devices the platform lists
MaxChannels == 2      \* input channels of one device
Overdrive == 2        \* the samples converted on their own reach Overdrive times full scale

\* --------------------------------------------------------------- constants
None == 0                            \* recording_stream = None (stream ids start at 1)
NoModel == "None"                    \* self.model = None
Artifact == "recorded_audio.wav"     \* os.path.abspath(self.output_wav)
UserFile == "user.wav"               \* a wave file the user already has on disk
Models == {"tiny"}                   \* self.models, cut to the default selection
FullScale == 32767
sample_rate == 16000                 \* self.sample_rate
record_duration == 5                 \* self.record_duration, in seconds

DeviceNames == {"Built-in Mic", "Line In"}

\* the k-th block the audio subsystem delivers (float samples in [-1, 1]): blocks
\* differ in length and content, so that a lost or misplaced block shows
Block(k) == [i \in 1..k |-> ((i * k) % (2 * SampleScale + 1)) - SampleScale]

VARIABLES
    is_recording,      \* self.is_recording
    recording_data,    \* self.recording_data: the list of chunks
    recording_stream,  \* self.recording_stream: None or a stream id
    model,             \* self.model: None or the loaded model's name
    file_path,         \* self.file_path (StringVar): "" or a path
    status,            \* self.status (StringVar)
    result_text,       \* self.result_text: number of texts inserted since the last delete
    streams,           \* the sd.InputStream objects created so far: their state
    delivered,         \* per stream, the chunks its callback was handed (history)
    fs,                \* the artifact file: absent, being written, complete or torn
    threads,           \* the live daemon threads: a bag of [kind, pc, audio_file]
    spawned,           \* the number of daemon threads started so far
    starts,            \* the number of start_recording threads among them
    ui_pc,             \* where the Tk event thread is: "idle" or a line of stop_recording
    stop_audio,        \* stop_recording's locals audio / recording_int16
    enumeration,       \* the call of get_input_devices: the platform's answer and its locals
    conversion         \* one application of np.int16(x * 32767) to a pair of samples

\* the two calls that the specifications of the application leave alone
calls == <<enumeration, conversion>>

vars == <<is_recording, recording_data, recording_stream, model, file_path, status,
          result_text, streams, delivered, fs, threads, spawned, starts, ui_pc, stop_audio,
          calls>>

\* ------------------------------------------------------------ pure helpers
\* mutant of Concatenate: the chunks joined last first
RECURSIVE Concatenate_Reversed(_)
Concatenate_Reversed(chunks) ==
    IF chunks = <<>> THEN <<>> ELSE Concatenate_Reversed(Tail(chunks)) \o Head(chunks)

\* np.concatenate(self.recording_data, axis=0)
RECURSIVE Concatenate(_)
Concatenate(chunks) ==
    IF chunks = <<>> THEN <<>> ELSE Head(chunks) \o Concatenate(Tail(chunks))

\* truncation toward zero, as the float -> int16 cast does
TruncDiv(a, b) == IF a >= 0 THEN a \div b ELSE -((-a) \div b)

Wrap16(n) == ((n + 32768) % 65536) - 32768

\* mutant of Int16: the sample is scaled by 32768
Int16_Scale32768(k) == Wrap16(TruncDiv(k * (FullScale + 1), SampleScale))

\* np.int16(audio * 32767) on one sample whose scaled value fits in 16 bits (what
\* the cast can give otherwise is Int16Outcomes)
Int16(k) == Wrap16(TruncDiv(k * FullScale, SampleScale))

Int16Buffer(audio) == [i \in 1..Len(audio) |-> Int16(audio[i])]

\* audio * 32767 on one sample, with the fraction the cast drops removed
Scaled(k) == TruncDiv(k * FullScale, SampleScale)

Saturate(n) == IF n > 32767 THEN 32767 ELSE IF n < -32768 THEN -32768 ELSE n

\* What the cast of np.int16(audio * 32767) can store for one sample.  A value that
\* fits in 16 bits is stored as Int16 gives it.  For a value that does not fit the
\* float -> integer conversion is undefined in C and numpy documents the result as
\* platform-dependent: the low 16 bits of a wider conversion (wrapped), the nearest
\* bound of a saturating conversion, or the processor's "invalid" answer.
Int16Outcomes(k) ==
    IF Scaled(k) \in -32768..32767
    THEN {Int16(k)}
    ELSE {Wrap16(Scaled(k)), Saturate(Scaled(k)), -32768}

\* stop_recording's locals outside the call
NoLocals == [audio |-> <<>>, recording_int16 |-> <<>>]

Exists(path) == path = UserFile \/ (path = Artifact /\ fs # "absent")

StreamState(r) == IF r = None THEN "none" ELSE streams[r]

OpenStreams == {s \in 1..Len(streams) : streams[s] # "closed"}

RECURSIVE NumDelivered(_)
NumDelivered(d) == IF d = <<>> THEN 0 ELSE Len(Head(d)) + NumDelivered(Tail(d))

\* a daemon thread and its locals: audio_file / abs_wav_path, and the number of frames
\* of recording / recording_int16 (0 before sd.rec)
Thread(kind, pc) == [kind |-> kind, pc |-> pc, audio_file |-> "", frames |-> 0]

Live == BagToSet(threads)

At(t, kind, pc) == t \in Live /\ t.kind = kind /\ t.pc = pc

Goto(t, pc) == threads' = (threads (-) SetToBag({t})) (+) SetToBag({[t EXCEPT !.pc = pc]})

Exit(t) == threads' = threads (-) SetToBag({t})

\* the object after __init__
Constructed ==
    /\ is_recording = FALSE
    /\ recording_data = <<>>
    /\ recording_stream = None
    /\ model = NoModel
    /\ file_path = ""
    /\ status = "Ready"
    /\ result_text = 0
    /\ streams = <<>>
    /\ delivered = <<>>
    /\ fs \in {"absent", "complete"}     \* an earlier run may have left its artifact
    /\ threads = EmptyBag
    /\ spawned = 0
    /\ starts = 0
    /\ ui_pc = "idle"
    /\ stop_audio = NoLocals

\* get_input_devices has returned (it runs inside create_gui, line 58), here on a
\* platform without devices; no conversion is under way
NoEnumeration ==
    [platform |-> <<>>, fails |-> FALSE, pc |-> "returned", info |-> <<>>, idx |-> 0,
     devices |-> <<>>, shown |-> 0]

NoConversion == [pc |-> "done", a |-> 0, b |-> 0, out_a |-> 0, out_b |-> 0]

Init ==
    /\ Constructed
    /\ enumeration = NoEnumeration
    /\ conversion = NoConversion

\* ------------------------------------------------- the Tk event thread
\* threading.Thread(target=..., daemon=True).start()
Spawn(kind, pc) ==
    /\ ui_pc = "idle"
    /\ spawned < MaxThreads
    /\ threads' = threads (+) SetToBag({Thread(kind, pc)})
    /\ spawned' = spawned + 1
    /\ starts' = IF kind = "start" THEN starts + 1 ELSE starts
    /\ kind = "start" => starts < MaxStarts

\* "Load/Download Model" button: load_model_thread (lines 101-103)
load_model_thread ==
    /\ Spawn("load", "106")
    /\ UNCHANGED <<calls, is_recording, recording_data, recording_stream, model, file_path,
                   status, result_text, streams, delivered, fs, ui_pc, stop_audio>>

\* "Record Audio" button: start_recording_thread (lines 137-138)
start_recording_thread ==
    /\ Spawn("start", "141")
    /\ UNCHANGED <<calls, is_recording, recording_data, recording_stream, model, file_path,
                   status, result_text, streams, delivered, fs, ui_pc, stop_audio>>

\* "Transcribe Selected File" button: transcribe_thread (lines 244-246)
transcribe_thread ==
    /\ Spawn("transcribe", "249")
    /\ UNCHANGED <<calls, is_recording, recording_data, recording_stream, model, file_path,
                   status, result_text, streams, delivered, fs, ui_pc, stop_audio>>

\* "Browse" button (lines 91-94): the dialog returns an existing file, or "" when cancelled
browse_file ==
    /\ ui_pc = "idle"
    /\ \E file \in {"", UserFile, Artifact} :
          /\ file # "" => Exists(file)
          /\ file_path' = IF file # "" THEN file ELSE file_path
    /\ UNCHANGED <<calls, is_recording, recording_data, recording_stream, model, status,
                   result_text, streams, delivered, fs, threads, spawned, starts, ui_pc,
                   stop_audio>>

\* ------------------------------------------------- start_recording (daemon thread)
\* mutant of Start141: the is_recording check is missing
Start141_NoCheck ==
    \E t \in Live :
        /\ At(t, "start", "141")
        /\ Goto(t, "143")
        /\ UNCHANGED <<calls, is_recording, recording_data, recording_stream, model, file_path,
                       status, result_text, streams, delivered, fs, spawned, starts, ui_pc,
                       stop_audio>>

\* line 141: if self.is_recording:
Start141 ==
    \E t \in Live :
        /\ At(t, "start", "141")
        /\ IF is_recording THEN Goto(t, "142") ELSE Goto(t, "143")
        /\ UNCHANGED <<calls, is_recording, recording_data, recording_stream, model, file_path,
                       status, result_text, streams, delivered, fs, spawned, starts, ui_pc,
                       stop_audio>>

\* line 142: return
Start142 ==
    \E t \in Live :
        /\ At(t, "start", "142")
        /\ Exit(t)
        /\ UNCHANGED <<calls, is_recording, recording_data, recording_stream, model, file_path,
                       status, result_text, streams, delivered, fs, spawned, starts, ui_pc,
                       stop_audio>>

\* line 143: self.is_recording = True
Start143 ==
    \E t \in Live :
        /\ At(t, "start", "143")
        /\ is_recording' = TRUE
        /\ Goto(t, "144")
        /\ UNCHANGED <<calls, recording_data, recording_stream, model, file_path, status,
                       result_text, streams, delivered, fs, spawned, starts, ui_pc, stop_audio>>

\* line 144: self.recording_data = []
Start144 ==
    \E t \in Live :
        /\ At(t, "start", "144")
        /\ recording_data' = <<>>
        /\ Goto(t, "145")
        /\ UNCHANGED <<calls, is_recording, recording_stream, model, file_path, status,
                       result_text, streams, delivered, fs, spawned, starts, ui_pc, stop_audio>>

\* lines 145-149: status, clear the result text, root.update(), pick the device
Start145 ==
    \E t \in Live :
        /\ At(t, "start", "145")
        /\ status' = "Recording... Press Stop to finish."
        /\ result_text' = 0
        /\ Goto(t, "156")
        /\ UNCHANGED <<calls, is_recording, recording_data, recording_stream, model, file_path,
                       streams, delivered, fs, spawned, starts, ui_pc, stop_audio>>

\* lines 156-161: self.recording_stream = sd.InputStream(...).  The constructor opens
\* the stream (not yet running) or raises; nothing in start_recording catches it.
Start156 ==
    \E t \in Live :
        /\ At(t, "start", "156")
        /\ \/ /\ streams' = Append(streams, "stopped")
              /\ delivered' = Append(delivered, <<>>)
              /\ recording_stream' = Len(streams) + 1
              /\ Goto(t, "162")
           \/ /\ Goto(t, "uncaught")
              /\ UNCHANGED <<streams, delivered, recording_stream>>
        /\ UNCHANGED <<calls, is_recording, recording_data, model, file_path, status, result_text,
                       fs, spawned, starts, ui_pc, stop_audio>>

\* line 162: self.recording_stream.start(), on whatever self.recording_stream is now.
\* None has no start(); a closed stream cannot be started; starting a running
\* stream is accepted; starting a stopped one may fail in the audio subsystem.
Start162 ==
    \E t \in Live :
        /\ At(t, "start", "162")
        /\ \/ /\ StreamState(recording_stream) \in {"stopped", "active"}
              /\ streams' = [streams EXCEPT ![recording_stream] = "active"]
              /\ Exit(t)
           \/ /\ StreamState(recording_stream) # "active"
              /\ Goto(t, "uncaught")
              /\ UNCHANGED streams
        /\ UNCHANGED <<calls, is_recording, recording_data, recording_stream, model, file_path,
                       status, result_text, delivered, fs, spawned, starts, ui_pc, stop_audio>>

\* an exception left start_recording: the thread dies with it
StartUncaught ==
    \E t \in Live :
        /\ At(t, "start", "uncaught")
        /\ Exit(t)
        /\ UNCHANGED <<calls, is_recording, recording_data, recording_stream, model, file_path,
                       status, result_text, streams, delivered, fs, spawned, starts, ui_pc,
                       stop_audio>>

\* lines 151-154: the stream's callback, on the audio subsystem's thread
callback ==
    \E s \in 1..Len(streams) :
        /\ s \in 1..Len(streams)
        /\ streams[s] = "active"
        /\ NumDelivered(delivered) < MaxChunks
        /\ LET indata == Block(NumDelivered(delivered) + 1)
           IN /\ recording_data' = Append(recording_data, indata)
              /\ delivered' = [delivered EXCEPT ![s] = Append(@, indata)]
        /\ UNCHANGED <<calls, is_recording, recording_stream, model, file_path, status,
                       result_text, streams, fs, threads, spawned, starts, ui_pc, stop_audio>>

\* ------------------------------------------------- stop_recording (Tk event thread)
\* mutant of Stop165: the is_recording check is missing
Stop165_NoCheck ==
    /\ ui_pc = "idle"
    /\ ui_pc' = "167"
    /\ UNCHANGED <<calls, is_recording, recording_data, recording_stream, model, file_path,
                   status, result_text, streams, delivered, fs, threads, spawned, starts,
                   stop_audio>>

\* "Stop Recording" button, command=self.stop_recording (line 77), and
\* line 165: if not self.is_recording:
Stop165 ==
    /\ ui_pc = "idle"
    /\ ui_pc' = IF is_recording THEN "167" ELSE "166"
    /\ UNCHANGED <<calls, is_recording, recording_data, recording_stream, model, file_path,
                   status, result_text, streams, delivered, fs, threads, spawned, starts,
                   stop_audio>>

\* line 166: return
Stop166 ==
    /\ ui_pc = "166"
    /\ ui_pc' = "idle"
    /\ UNCHANGED <<calls, is_recording, recording_data, recording_stream, model, file_path,
                   status, result_text, streams, delivered, fs, threads, spawned, starts,
                   stop_audio>>

\* line 167: self.is_recording = False
Stop167 ==
    /\ ui_pc = "167"
    /\ is_recording' = FALSE
    /\ ui_pc' = "168"
    /\ UNCHANGED <<calls, recording_data, recording_stream, model, file_path, status,
                   result_text, streams, delivered, fs, threads, spawned, starts, stop_audio>>

\* line 168: if self.recording_stream:
Stop168 ==
    /\ ui_pc = "168"
    /\ ui_pc' = IF recording_stream # None THEN "169" ELSE "174"
    /\ UNCHANGED <<calls, is_recording, recording_data, recording_stream, model, file_path,
                   status, result_text, streams, delivered, fs, threads, spawned, starts,
                   stop_audio>>

\* line 169: self.recording_stream.stop() (the stream ignores errors)
Stop169 ==
    /\ ui_pc = "169"
    /\ streams' = [streams EXCEPT ![recording_stream] =
                      IF @ = "active" THEN "stopped" ELSE @]
    /\ ui_pc' = "170"
    /\ UNCHANGED <<calls, is_recording, recording_data, recording_stream, model, file_path,
                   status, result_text, delivered, fs, threads, spawned, starts, stop_audio>>

\* line 170: self.recording_stream.close()
Stop170 ==
    /\ ui_pc = "170"
    /\ streams' = [streams EXCEPT ![recording_stream] = "closed"]
    /\ ui_pc' = "171"
    /\ UNCHANGED <<calls, is_recording, recording_data, recording_stream, model, file_path,
                   status, result_text, delivered, fs, threads, spawned, starts, stop_audio>>

\* line 171: self.recording_stream = None
Stop171 ==
    /\ ui_pc = "171"
    /\ recording_stream' = None
    /\ ui_pc' = "174"
    /\ UNCHANGED <<calls, is_recording, recording_data, model, file_path, status, result_text,
                   streams, delivered, fs, threads, spawned, starts, stop_audio>>

\* lines 174-177: if self.recording_data: audio = np.concatenate(...);
\* recording_int16 = np.int16(audio * 32767)
Stop174 ==
    /\ ui_pc = "174"
    /\ IF recording_data # <<>>
       THEN /\ stop_audio' = [audio |-> Concatenate(recording_data),
                               recording_int16 |->
                                   Int16Buffer(Concatenate(recording_data))]
            /\ ui_pc' = "178"
       ELSE /\ stop_audio' = stop_audio
            /\ ui_pc' = "185"
    /\ UNCHANGED <<calls, is_recording, recording_data, recording_stream, model, file_path,
                   status, result_text, streams, delivered, fs, threads, spawned, starts>>

\* An exception inside the with block leaves stop_recording (nothing in it catches)
\* and ends the button's callback.
StopRaise ==
    /\ ui_pc' = "idle"
    /\ stop_audio' = NoLocals

\* line 178: open(abs_wav_path, 'wb') truncates the artifact, or raises
Stop178 ==
    /\ ui_pc = "178"
    /\ \/ /\ fs' = "writing"
          /\ ui_pc' = "179"
          /\ UNCHANGED stop_audio
       \/ /\ StopRaise
          /\ UNCHANGED fs
    /\ UNCHANGED <<calls, is_recording, recording_data, recording_stream, model, file_path,
                   status, result_text, streams, delivered, threads, spawned, starts>>

\* line 179: wavfile.write(f, self.sample_rate, recording_int16), or it raises and
\* the with block closes a torn file
Stop179 ==
    /\ ui_pc = "179"
    /\ \/ /\ fs' = "writing"
          /\ ui_pc' = "180"
          /\ UNCHANGED stop_audio
       \/ /\ StopRaise
          /\ fs' = "torn"
    /\ UNCHANGED <<calls, is_recording, recording_data, recording_stream, model, file_path,
                   status, result_text, streams, delivered, threads, spawned, starts>>

\* lines 180-181: f.flush(); os.fsync(f.fileno()), or one of them raises
Stop180 ==
    /\ ui_pc = "180"
    /\ \/ /\ fs' = "complete"
          /\ ui_pc' = "182"
          /\ UNCHANGED stop_audio
       \/ /\ StopRaise
          /\ fs' = "torn"
    /\ UNCHANGED <<calls, is_recording, recording_data, recording_stream, model, file_path,
                   status, result_text, streams, delivered, threads, spawned, starts>>

\* line 182: self.file_path.set(abs_wav_path)
Stop182 ==
    /\ ui_pc = "182"
    /\ file_path' = Artifact
    /\ ui_pc' = "183"
    /\ UNCHANGED <<calls, is_recording, recording_data, recording_stream, model, status,
                   result_text, streams, delivered, fs, threads, spawned, starts, stop_audio>>

\* line 183: self.status.set(f"Audio recorded and saved to {abs_wav_path}")
Stop183 ==
    /\ ui_pc = "183"
    /\ status' = "Audio recorded and saved"
    /\ ui_pc' = "idle"
    /\ stop_audio' = NoLocals
    /\ UNCHANGED <<calls, is_recording, recording_data, recording_stream, model, file_path,
                   result_text, streams, delivered, fs, threads, spawned, starts>>

\* line 185: self.status.set("No audio recorded.")
Stop185 ==
    /\ ui_pc = "185"
    /\ status' = "No audio recorded."
    /\ ui_pc' = "idle"
    /\ UNCHANGED <<calls, is_recording, recording_data, recording_stream, model, file_path,
                   result_text, streams, delivered, fs, threads, spawned, starts, stop_audio>>

\* ------------------------------------------------- load_model (daemon thread)
\* lines 106-108: status "Checking if ... is downloaded..."
Load106 ==
    \E t \in Live :
        /\ At(t, "load", "106")
        /\ status' = "Checking if model is downloaded..."
        /\ Goto(t, "110")
        /\ UNCHANGED <<calls, is_recording, recording_data, recording_stream, model, file_path,
                       result_text, streams, delivered, fs, spawned, starts, ui_pc, stop_audio>>

\* lines 110-115: check_model_exists: found in the cache or not
Load110 ==
    \E t \in Live :
        /\ At(t, "load", "110")
        /\ \/ status' = "Model found locally. Loading..."
           \/ status' = "Downloading model..."
        /\ Goto(t, "118")
        /\ UNCHANGED <<calls, is_recording, recording_data, recording_stream, model, file_path,
                       result_text, streams, delivered, fs, spawned, starts, ui_pc, stop_audio>>

\* lines 117-121: try: self.model = whisper.load_model(model_name); status "loaded",
\* or except: showerror
Load118 ==
    \E t \in Live :
        /\ At(t, "load", "118")
        /\ \/ /\ \E model_name \in Models : model' = model_name
              /\ status' = "Model loaded successfully!"
              /\ Exit(t)
           \/ /\ Goto(t, "121")
              /\ UNCHANGED <<model, status>>
        /\ UNCHANGED <<calls, is_recording, recording_data, recording_stream, file_path,
                       result_text, streams, delivered, fs, spawned, starts, ui_pc, stop_audio>>

\* lines 121-123: the message box is dismissed; self.status.set("Error loading model")
Load122 ==
    \E t \in Live :
        /\ At(t, "load", "121")
        /\ status' = "Error loading model"
        /\ Exit(t)
        /\ UNCHANGED <<calls, is_recording, recording_data, recording_stream, model, file_path,
                       result_text, streams, delivered, fs, spawned, starts, ui_pc, stop_audio>>

\* ------------------------------------------------- transcribe (daemon thread)
\* mutant of Transcribe249: the model check is missing
Transcribe249_NoCheck ==
    \E t \in Live :
        /\ At(t, "transcribe", "249")
        /\ Goto(t, "253")
        /\ UNCHANGED <<calls, is_recording, recording_data, recording_stream, model, file_path,
                       status, result_text, streams, delivered, fs, spawned, starts, ui_pc,
                       stop_audio>>

\* line 249: if not self.model:
Transcribe249 ==
    \E t \in Live :
        /\ At(t, "transcribe", "249")
        /\ IF model = NoModel THEN Goto(t, "250") ELSE Goto(t, "253")
        /\ UNCHANGED <<calls, is_recording, recording_data, recording_stream, model, file_path,
                       status, result_text, streams, delivered, fs, spawned, starts, ui_pc,
                       stop_audio>>

\* lines 253-254: audio_file = self.file_path.get(); "" or a missing file is refused
Transcribe253 ==
    \E t \in Live :
        /\ At(t, "transcribe", "253")
        /\ IF file_path = "" \/ ~Exists(file_path)
           THEN Goto(t, "255")
           ELSE threads' = (threads (-) SetToBag({t}))
                           (+) SetToBag({[t EXCEPT !.pc = "258", !.audio_file = file_path]})
        /\ UNCHANGED <<calls, is_recording, recording_data, recording_stream, model, file_path,
                       status, result_text, streams, delivered, fs, spawned, starts, ui_pc,
                       stop_audio>>

\* lines 250-251 and 255-256: the message box is dismissed; return
TranscribeReturn ==
    \E t \in Live :
        /\ At(t, "transcribe", "250") \/ At(t, "transcribe", "255")
        /\ Exit(t)
        /\ UNCHANGED <<calls, is_recording, recording_data, recording_stream, model, file_path,
                       status, result_text, streams, delivered, fs, spawned, starts, ui_pc,
                       stop_audio>>

\* lines 258-260: status "Transcribing audio...", clear the result text
Transcribe258 ==
    \E t \in Live :
        /\ At(t, "transcribe", "258")
        /\ status' = "Transcribing audio..."
        /\ result_text' = 0
        /\ Goto(t, "263")
        /\ UNCHANGED <<calls, is_recording, recording_data, recording_stream, model, file_path,
                       streams, delivered, fs, spawned, starts, ui_pc, stop_audio>>

\* line 263: self.model.transcribe(audio_file) is entered: the gateway reads the file
Transcribe263 ==
    \E t \in Live :
        /\ At(t, "transcribe", "263")
        /\ Goto(t, "gateway")
        /\ UNCHANGED <<calls, is_recording, recording_data, recording_stream, model, file_path,
                       status, result_text, streams, delivered, fs, spawned, starts, ui_pc,
                       stop_audio>>

\* lines 263-267: the gateway returns and the text is inserted, status "completed",
\* or it raises and the except shows the error
Transcribe264 ==
    \E t \in Live :
        /\ At(t, "transcribe", "gateway")
        /\ \/ /\ result_text' = result_text + 1
              /\ status' = "Transcription completed!"
              /\ Exit(t)
           \/ /\ Goto(t, "267")
              /\ UNCHANGED <<result_text, status>>
        /\ UNCHANGED <<calls, is_recording, recording_data, recording_stream, model, file_path,
                       streams, delivered, fs, spawned, starts, ui_pc, stop_audio>>

\* lines 267-269: the message box is dismissed; status "Error during transcription"
Transcribe268 ==
    \E t \in Live :
        /\ At(t, "transcribe", "267")
        /\ status' = "Error during transcription"
        /\ Exit(t)
        /\ UNCHANGED <<calls, is_recording, recording_data, recording_stream, model, file_path,
                       result_text, streams, delivered, fs, spawned, starts, ui_pc, stop_audio>>

\* ------------------------------------------------- the fixed-duration paths
\* record_and_transcribe (lines 191-242) and record_audio_only (lines 271-306) share
\* their recording and saving lines; the steps below take the thread kind and the
\* lines: the one executed, the one that follows, the except clause's.
FixedKinds == {"record_and_transcribe", "record_audio_only"}

\* record_and_transcribe_thread (lines 187-189)
record_and_transcribe_thread ==
    /\ Spawn("record_and_transcribe", "192")
    /\ UNCHANGED <<calls, is_recording, recording_data, recording_stream, model,
                   file_path, status, result_text, streams, delivered, fs, ui_pc,
                   stop_audio>>

\* record_audio_only is entered by a caller on a thread of its own (line 271)
record_audio_only_call ==
    /\ Spawn("record_audio_only", "273")
    /\ UNCHANGED <<calls, is_recording, recording_data, recording_stream, model,
                   file_path, status, result_text, streams, delivered, fs, ui_pc,
                   stop_audio>>

\* mutant of Frames: the duration is left out
Frames_RateOnly == sample_rate

\* int(self.record_duration * self.sample_rate), the frames asked of sd.rec
Frames == record_duration * sample_rate

\* self.status.set(text); self.result_text.delete(1.0, tk.END); self.root.update()
FixedBegin(kind, at, next, text) ==
    \E t \in Live :
        /\ At(t, kind, at)
        /\ status' = text
        /\ result_text' = 0
        /\ Goto(t, next)
        /\ UNCHANGED <<calls, is_recording, recording_data, recording_stream, model,
                       file_path, streams, delivered, fs, spawned, starts, ui_pc,
                       stop_audio>>

\* recording = sd.rec(int(...), samplerate=..., channels=1, device=device_idx);
\* sd.wait(): the array sd.rec returns has the frames asked for; or the device cannot
\* be opened and the call raises
FixedRec(kind, at, next, except) ==
    \E t \in Live :
        /\ At(t, kind, at)
        /\ \/ threads' = (threads (-) SetToBag({t}))
                         (+) SetToBag({[t EXCEPT !.pc = next, !.frames = Frames]})
           \/ Goto(t, except)
        /\ UNCHANGED <<calls, is_recording, recording_data, recording_stream, model,
                       file_path, status, result_text, streams, delivered, fs, spawned,
                       starts, ui_pc, stop_audio>>

\* self.status.set(text); self.root.update()
FixedStatus(kind, at, next, text) ==
    \E t \in Live :
        /\ At(t, kind, at)
        /\ status' = text
        /\ Goto(t, next)
        /\ UNCHANGED <<calls, is_recording, recording_data, recording_stream, model,
                       file_path, result_text, streams, delivered, fs, spawned, starts,
                       ui_pc, stop_audio>>

\* mutant of FixedOpen: the path is published when the file is opened
FixedOpen_Publishes(kind, at, next, except) ==
    \E t \in Live :
        /\ At(t, kind, at)
        /\ \/ /\ fs' = "writing"
              /\ file_path' = Artifact
              /\ Goto(t, next)
           \/ /\ Goto(t, except)
              /\ UNCHANGED <<fs, file_path>>
        /\ UNCHANGED <<calls, is_recording, recording_data, recording_stream, model,
                       status, result_text, streams, delivered, spawned, starts,
                       ui_pc, stop_audio>>

\* recording_int16 = np.int16(recording * 32767) (as many frames as recording);
\* with open(abs_wav_path, 'wb') as f: the artifact is truncated, or open raises
FixedOpen(kind, at, next, except) ==
    \E t \in Live :
        /\ At(t, kind, at)
        /\ \/ /\ fs' = "writing"
              /\ Goto(t, next)
           \/ /\ Goto(t, except)
              /\ UNCHANGED fs
        /\ UNCHANGED <<calls, is_recording, recording_data, recording_stream, model,
                       file_path, status, result_text, streams, delivered, spawned,
                       starts, ui_pc, stop_audio>>

\* wavfile.write(f, self.sample_rate, recording_int16), or it raises and the with
\* block closes a torn file
FixedWrite(kind, at, next, except) ==
    \E t \in Live :
        /\ At(t, kind, at)
        /\ \/ /\ fs' = "writing"
              /\ Goto(t, next)
           \/ /\ fs' = "torn"
              /\ Goto(t, except)
        /\ UNCHANGED <<calls, is_recording, recording_data, recording_stream, model,
                       file_path, status, result_text, streams, delivered, spawned,
                       starts, ui_pc, stop_audio>>

\* f.flush(); os.fsync(f.fileno()), or one of them raises; then time.sleep(0.1)
FixedSync(kind, at, next, except) ==
    \E t \in Live :
        /\ At(t, kind, at)
        /\ \/ /\ fs' = "complete"
              /\ Goto(t, next)
           \/ /\ fs' = "torn"
              /\ Goto(t, except)
        /\ UNCHANGED <<calls, is_recording, recording_data, recording_stream, model,
                       file_path, status, result_text, streams, delivered, spawned,
                       starts, ui_pc, stop_audio>>

\* self.file_path.set(abs_wav_path)
FixedPublish(kind, at, next) ==
    \E t \in Live :
        /\ At(t, kind, at)
        /\ file_path' = Artifact
        /\ threads' = (threads (-) SetToBag({t}))
                      (+) SetToBag({[t EXCEPT !.pc = next, !.audio_file = Artifact]})
        /\ UNCHANGED <<calls, is_recording, recording_data, recording_stream, model,
                       status, result_text, streams, delivered, fs, spawned, starts,
                       ui_pc, stop_audio>>

\* if not os.path.exists(abs_wav_path): raise FileNotFoundError(...)
FixedExists(kind, at, next, except) ==
    \E t \in Live :
        /\ At(t, kind, at)
        /\ IF Exists(Artifact) THEN Goto(t, next) ELSE Goto(t, except)
        /\ UNCHANGED <<calls, is_recording, recording_data, recording_stream, model,
                       file_path, status, result_text, streams, delivered, fs, spawned,
                       starts, ui_pc, stop_audio>>

\* the last status of the call (or, in the except clause, the message box dismissed
\* and the error status); self.root.update(); the thread ends
FixedEnd(kind, at, text) ==
    \E t \in Live :
        /\ At(t, kind, at)
        /\ status' = text
        /\ Exit(t)
        /\ UNCHANGED <<calls, is_recording, recording_data, recording_stream, model,
                       file_path, result_text, streams, delivered, fs, spawned, starts,
                       ui_pc, stop_audio>>

\* line 192: if not self.model:
Rat192 ==
    \E t \in Live :
        /\ At(t, "record_and_transcribe", "192")
        /\ IF model = NoModel THEN Goto(t, "193") ELSE Goto(t, "196")
        /\ UNCHANGED <<calls, is_recording, recording_data, recording_stream, model,
                       file_path, status, result_text, streams, delivered, fs, spawned,
                       starts, ui_pc, stop_audio>>

\* lines 193-194: the message box is dismissed; return
Rat193 ==
    \E t \in Live :
        /\ At(t, "record_and_transcribe", "193")
        /\ Exit(t)
        /\ UNCHANGED <<calls, is_recording, recording_data, recording_stream, model,
                       file_path, status, result_text, streams, delivered, fs, spawned,
                       starts, ui_pc, stop_audio>>

\* lines 196-198
Rat196 == FixedBegin("record_and_transcribe", "196", "206", "Recording audio...")

\* lines 203-208
Rat206 == FixedRec("record_and_transcribe", "206", "209", "240")

\* lines 209-210
Rat209 ==
    FixedStatus("record_and_transcribe", "209", "216",
                "Recording finished, saving as WAV...")

\* lines 213-216
Rat216 == FixedOpen("record_and_transcribe", "216", "217", "240")

\* line 217
Rat217 == FixedWrite("record_and_transcribe", "217", "218", "240")

\* lines 218-221
Rat218 == FixedSync("record_and_transcribe", "218", "224", "240")

\* line 224
Rat224 == FixedPublish("record_and_transcribe", "224", "227")

\* lines 227-228
Rat227 == FixedExists("record_and_transcribe", "227", "234", "240")

\* lines 234-235
Rat234 ==
    FixedStatus("record_and_transcribe", "234", "236", "Transcribing recorded audio...")

\* line 236: self.model.transcribe(abs_wav_path) is entered: the gateway reads the file
Rat236 ==
    \E t \in Live :
        /\ At(t, "record_and_transcribe", "236")
        /\ Goto(t, "gateway")
        /\ UNCHANGED <<calls, is_recording, recording_data, recording_stream, model,
                       file_path, status, result_text, streams, delivered, fs, spawned,
                       starts, ui_pc, stop_audio>>

\* lines 236-238: the gateway returns, the text is inserted, status "completed", or
\* it raises
Rat237 ==
    \E t \in Live :
        /\ At(t, "record_and_transcribe", "gateway")
        /\ \/ /\ result_text' = result_text + 1
              /\ status' = "Transcription completed!"
              /\ Exit(t)
           \/ /\ Goto(t, "240")
              /\ UNCHANGED <<result_text, status>>
        /\ UNCHANGED <<calls, is_recording, recording_data, recording_stream, model,
                       file_path, streams, delivered, fs, spawned, starts, ui_pc,
                       stop_audio>>

\* lines 239-242
Rat240 == FixedEnd("record_and_transcribe", "240", "Error during recording/transcription")

\* lines 273-275
Rao273 == FixedBegin("record_audio_only", "273", "282", "Recording audio only...")

\* lines 279-284
Rao282 == FixedRec("record_audio_only", "282", "285", "304")

\* lines 285-286
Rao285 ==
    FixedStatus("record_audio_only", "285", "291", "Recording finished, saving as WAV...")

\* lines 288-291
Rao291 == FixedOpen("record_audio_only", "291", "292", "304")

\* line 292
Rao292 == FixedWrite("record_audio_only", "292", "293", "304")

\* lines 293-296
Rao293 == FixedSync("record_audio_only", "293", "298", "304")

\* line 298
Rao298 == FixedPublish("record_audio_only", "298", "300")

\* lines 300-301
Rao300 == FixedExists("record_audio_only", "300", "302", "304")

\* lines 302, 306
Rao302 == FixedEnd("record_audio_only", "302", "Audio recorded and saved")

\* lines 303-306
Rao304 == FixedEnd("record_audio_only", "304", "Error during recording")

record_and_transcribe ==
    \/ Rat192 \/ Rat193 \/ Rat196 \/ Rat206 \/ Rat209 \/ Rat216 \/ Rat217 \/ Rat218
    \/ Rat224 \/ Rat227 \/ Rat234 \/ Rat236 \/ Rat237 \/ Rat240

record_audio_only ==
    \/ Rao273 \/ Rao282 \/ Rao285 \/ Rao291 \/ Rao292 \/ Rao293 \/ Rao298 \/ Rao300
    \/ Rao302 \/ Rao304

\* ------------------------------------------------- get_input_devices (lines 125-135)
\* what sd.query_devices() can answer: up to MaxDevices devices, each with a name and
\* a number of input channels (0 for an output-only device)
Device == [name : DeviceNames, max_input_channels : 0..MaxChannels]

Platforms == UNION {[1..n -> Device] : n \in 0..MaxDevices}

\* the call is entered: the platform lists some devices, and its query works or raises
EnumerationInit ==
    /\ Constructed
    /\ enumeration \in
           [platform : Platforms, fails : BOOLEAN, pc : {"127"}, info : {<<>>},
            idx : {0}, devices : {<<>>}, shown : {0}]
    /\ conversion = NoConversion

AppUnchanged ==
    UNCHANGED <<is_recording, recording_data, recording_stream, model, file_path, status,
                result_text, streams, delivered, fs, threads, spawned, starts, ui_pc,
                stop_audio>>

\* line 127: devices = []
Enum127 ==
    /\ enumeration.pc = "127"
    /\ enumeration' = [enumeration EXCEPT !.devices = <<>>, !.pc = "129"]
    /\ AppUnchanged
    /\ UNCHANGED conversion

\* line 129: info = sd.query_devices(), or it raises and the except of line 133 takes over
Enum129 ==
    /\ enumeration.pc = "129"
    /\ enumeration' =
           IF enumeration.fails
           THEN [enumeration EXCEPT !.pc = "134"]
           ELSE [enumeration EXCEPT !.info = enumeration.platform, !.idx = 0, !.pc = "130"]
    /\ AppUnchanged
    /\ UNCHANGED conversion

\* mutant of Enum130: the device is listed under its position among the input devices
Enum130_Renumbered ==
    /\ enumeration.pc = "130"
    /\ LET idx == enumeration.idx
           dev == enumeration.info[idx + 1]
       IN  enumeration' =
               IF idx >= Len(enumeration.info)
               THEN [enumeration EXCEPT !.pc = "135"]
               ELSE IF dev.max_input_channels > 0
                    THEN [enumeration EXCEPT
                              !.devices = Append(@, <<Len(@), dev.name>>),
                              !.idx = idx + 1]
                    ELSE [enumeration EXCEPT !.idx = idx + 1]
    /\ AppUnchanged
    /\ UNCHANGED conversion

\* lines 130-132: one turn of for idx, dev in enumerate(info) (idx counts from 0):
\* if dev['max_input_channels'] > 0: devices.append((idx, dev['name']))
Enum130 ==
    /\ enumeration.pc = "130"
    /\ LET idx == enumeration.idx
           dev == enumeration.info[idx + 1]
       IN  enumeration' =
               IF idx >= Len(enumeration.info)
               THEN [enumeration EXCEPT !.pc = "135"]
               ELSE IF dev.max_input_channels > 0
                    THEN [enumeration EXCEPT
                              !.devices = Append(@, <<idx, dev.name>>),
                              !.idx = idx + 1]
                    ELSE [enumeration EXCEPT !.idx = idx + 1]
    /\ AppUnchanged
    /\ UNCHANGED conversion

\* line 134: messagebox.showerror("Error", "Could not query audio devices: ...")
Enum134 ==
    /\ enumeration.pc = "134"
    /\ enumeration' = [enumeration EXCEPT !.shown = @ + 1, !.pc = "135"]
    /\ AppUnchanged
    /\ UNCHANGED conversion

\* line 135: return devices
Enum135 ==
    /\ enumeration.pc = "135"
    /\ enumeration' = [enumeration EXCEPT !.pc = "returned"]
    /\ AppUnchanged
    /\ UNCHANGED conversion

get_input_devices == Enum127 \/ Enum129 \/ Enum130 \/ Enum134 \/ Enum135

EnumerationSpec == EnumerationInit /\ [][get_input_devices]_vars

\* ------------------------------------------------- np.int16(x * 32767) (lines 176, 213, 288)
\* the samples handed to the conversion: the floats k / SampleScale up to Overdrive
\* times full scale in either direction
Samples == -(Overdrive * SampleScale)..(Overdrive * SampleScale)

\* a buffer of two samples a, b is about to be converted
ConversionInit ==
    /\ Constructed
    /\ enumeration = NoEnumeration
    /\ conversion \in [pc : {"176"}, a : Samples, b : Samples, out_a : {0}, out_b : {0}]

\* recording_int16 = np.int16(audio * 32767), elementwise
Cast176 ==
    /\ conversion.pc = "176"
    /\ \E out_a \in Int16Outcomes(conversion.a), out_b \in Int16Outcomes(conversion.b) :
          conversion' = [conversion EXCEPT !.out_a = out_a, !.out_b = out_b,
                                           !.pc = "converted"]
    /\ AppUnchanged
    /\ UNCHANGED enumeration

ConversionSpec == ConversionInit /\ [][Cast176]_vars

\* ------------------------------------------------- the program
stop_recording ==
    \/ Stop165 \/ Stop166 \/ Stop167 \/ Stop168 \/ Stop169 \/ Stop170 \/ Stop171
    \/ Stop174 \/ Stop178 \/ Stop179 \/ Stop180 \/ Stop182 \/ Stop183 \/ Stop185

start_recording ==
    \/ Start141 \/ Start142 \/ Start143 \/ Start144 \/ Start145 \/ Start156
    \/ Start162 \/ StartUncaught

load_model == Load106 \/ Load110 \/ Load118 \/ Load122

transcribe ==
    \/ Transcribe249 \/ Transcribe253 \/ TranscribeReturn \/ Transcribe258
    \/ Transcribe263 \/ Transcribe264 \/ Transcribe268

Next ==
    \/ load_model_thread
    \/ start_recording_thread
    \/ transcribe_thread
    \/ browse_file
    \/ stop_recording
    \/ start_recording
    \/ load_model
    \/ transcribe
    \/ callback

Spec == Init /\ [][Next]_vars

\* The runs in which the user presses only "Record Audio" and "Stop Recording".
CaptureNext ==
    \/ start_recording_thread
    \/ stop_recording
    \/ start_recording
    \/ callback

CaptureSpec == Init /\ [][CaptureNext]_vars

\* The runs in which the user presses only "Record Audio": start requests and audio
\* callbacks, no stop.
StartNext ==
    \/ start_recording_thread
    \/ start_recording
    \/ callback

StartSpec == Init /\ [][StartNext]_vars

\* The runs of the fixed-duration paths beside a model load and an open-ended
\* session that is started and fed but not stopped.
FixedNext ==
    \/ record_and_transcribe_thread
    \/ record_audio_only_call
    \/ record_and_transcribe
    \/ record_audio_only
    \/ load_model_thread
    \/ load_model
    \/ start_recording_thread
    \/ start_recording
    \/ callback

FixedSpec == Init /\ [][FixedNext]_vars

\* The runs of every operation that saves the artifact: the fixed-duration paths
\* and stop_recording, with what they need to get there.
SaveNext ==
    \/ FixedNext
    \/ stop_recording

SaveSpec == Init /\ [][SaveNext]_vars

\* ================================================================ properties
\* the blocking lines of stop_recording: stream stop and close, open, write, flush+fsync
BlockingLines == {"169", "170", "178", "179", "180"}

\* the lines of stop_recording that touch the artifact file or publish its path
WriteLines == {"178", "179", "180", "182"}

\* thread t takes a step (its record leaves the bag, moved on or ended)
Steps(t) == CopiesIn(t, threads') < CopiesIn(t, threads)

\* the sum of the chunks' lengths
RECURSIVE SumLen(_)
SumLen(chunks) ==
    IF chunks = <<>> THEN 0 ELSE Len(Head(chunks)) + SumLen(Tail(chunks))

\* the chunks joined in arrival order, built from the last chunk backwards
RECURSIVE InArrivalOrder(_)
InArrivalOrder(chunks) ==
    IF chunks = <<>> THEN <<>>
    ELSE InArrivalOrder(SubSeq(chunks, 1, Len(chunks) - 1)) \o chunks[Len(chunks)]

\* C1: with start requests and audio callbacks only (no stop), at most one input
\* stream is open in every reachable state: a second start never opens a stream.
C1_AtMostOneOpenStream == Cardinality(OpenStreams) <= 1

\* C2: no transcribe thread is inside model.transcribe on the artifact while a write
\* to the artifact has begun and its flush+fsync has not completed.
C2_GatewaySeesWholeArtifact ==
    \A t \in Live :
        (t.kind = "transcribe" /\ t.pc = "gateway" /\ t.audio_file = Artifact)
            => fs # "writing"

\* C3: a stop that found no chunks writes nothing to the filesystem and leaves
\* file_path alone (no line of its path does), sets the status "No audio recorded.",
\* and ends with the session Idle and the stream closed and unreferenced.
C3_EmptyStop ==
    /\ [][(ui_pc' # ui_pc /\ ui_pc \notin WriteLines)
              => UNCHANGED <<fs, file_path>>]_vars
    /\ [][(ui_pc = "185" /\ ui_pc' = "idle")
              => /\ status' = "No audio recorded."
                 /\ is_recording' = FALSE
                 /\ recording_stream' = None
                 /\ OpenStreams' = {}]_vars

\* C4: in a session of one start and one stop, once the stream is closed the buffer
\* stop_recording builds is the chunks the callback delivered, joined in arrival
\* order, and its length is the sum of their lengths.
C4_BufferIsConcatenation ==
    (/\ starts = 1
     /\ Len(streams) = 1
     /\ streams[1] = "closed"
     /\ ui_pc \in {"178", "179", "180", "182", "183"})
        => /\ stop_audio.audio = InArrivalOrder(delivered[1])
           /\ Len(stop_audio.audio) = SumLen(delivered[1])
           /\ Len(stop_audio.recording_int16) = SumLen(delivered[1])

C4_Witness ==
    /\ starts = 1
    /\ Len(streams) = 1
    /\ streams[1] = "closed"
    /\ ui_pc = "178"
    /\ Len(delivered[1]) = MaxChunks
    /\ Len(stop_audio.audio) = SumLen(delivered[1])

\* C5: no failure of a background worker escapes it uncaught; in particular a failed
\* stream open in start_recording does not leave the session Recording under the
\* status "Recording... Press Stop to finish.".
C5_WorkerFailuresCaught ==
    /\ \A t \in Live : t.pc # "uncaught"
    /\ \A t \in Live :
          (t.kind = "start" /\ t.pc = "uncaught")
              => ~(is_recording /\ status = "Recording... Press Stop to finish.")

\* C6: when the artifact write fails during stop, the step that leaves stop_recording
\* finds the session Idle: is_recording false, the stream closed and its reference
\* cleared, file_path not updated.
C6_FailedWriteLeavesIdle ==
    [][(ui_pc \in {"178", "179", "180"} /\ ui_pc' = "idle")
           => /\ is_recording' = FALSE
              /\ recording_stream' = None
              /\ OpenStreams' = {}
              /\ file_path' = file_path]_vars

\* C7: the Tk event thread never stands at a blocking line of a user action: load,
\* start, stop (stream close, file write, fsync) and transcribe run on other threads.
C7_NoBlockingOnUiThread == ui_pc \notin BlockingLines

\* C8: stop_recording called while is_recording is false returns at once (line 166)
\* and changes nothing: not is_recording, the chunks, the stream reference and
\* streams, file_path, the status line or the artifact file.
C8_StopWhenIdleIsNoop ==
    /\ [][(ui_pc = "idle" /\ ui_pc' # "idle" /\ ~is_recording)
              => /\ ui_pc' = "166"
                 /\ UNCHANGED <<is_recording, recording_data, recording_stream,
                                streams, file_path, status, result_text, fs>>]_vars
    /\ [][(ui_pc = "166" /\ ui_pc' # "166")
              => /\ ui_pc' = "idle"
                 /\ UNCHANGED <<is_recording, recording_data, recording_stream,
                                streams, file_path, status, result_text, fs>>]_vars

C8_Witness ==
    /\ ui_pc = "166"
    /\ recording_data # <<>>
    /\ fs = "complete"
    /\ file_path = Artifact

\* C9: start_recording called while is_recording is true returns at once (line 142):
\* it leaves the chunks, the stream reference and the streams, the status line and
\* the result text as they are.
C9_StartWhenRecordingIsNoop ==
    [][\A t \in Live :
          /\ (t.kind = "start" /\ t.pc = "141" /\ is_recording /\ Steps(t))
                => /\ threads' = (threads (-) SetToBag({t}))
                                 (+) SetToBag({[t EXCEPT !.pc = "142"]})
                   /\ UNCHANGED <<is_recording, recording_data, recording_stream,
                                  streams, status, result_text>>
          /\ (t.kind = "start" /\ t.pc = "142" /\ Steps(t))
                => /\ threads' = threads (-) SetToBag({t})
                   /\ UNCHANGED <<is_recording, recording_data, recording_stream,
                                  streams, status, result_text>>]_vars

C9_Witness ==
    \E t \in Live :
        /\ t.kind = "start"
        /\ t.pc = "142"
        /\ recording_data # <<>>
        /\ StreamState(recording_stream) = "active"

\* C10: a transcribe thread reaches the gateway only with a model loaded and a
\* non-empty path of an existing file, and no step of a transcribe thread changes
\* is_recording, the chunks, the stream reference, the streams or the model.
C10_TranscribeGuardedAndFramed ==
    /\ [](\A t \in Live :
             (t.kind = "transcribe" /\ t.pc \in {"258", "263", "gateway"})
                 => /\ model # NoModel
                    /\ t.audio_file # ""
                    /\ Exists(t.audio_file)
                    /\ file_path # ""
                    /\ Exists(file_path))
    /\ [][\A t \in Live :
             (t.kind = "transcribe" /\ Steps(t))
                 => UNCHANGED <<is_recording, recording_data, recording_stream,
                                streams, model>>]_vars

C10_Witness ==
    \E t \in Live :
        /\ t.kind = "transcribe"
        /\ t.pc = "gateway"
        /\ is_recording
        /\ recording_data # <<>>
        /\ model # NoModel

\* C12: get_input_devices returns, in platform order and under their platform
\* indices (counted from 0), exactly the devices with more than 0 input channels, and
\* reports nothing; if the query raises it returns the empty list, no exception leaves
\* it, and the failure is reported in exactly one message box.
C12_InputDevicesListed ==
    enumeration.pc = "returned" =>
        LET platform == enumeration.platform
            devices == enumeration.devices
        IN  IF enumeration.fails
            THEN devices = <<>> /\ enumeration.shown = 1
            ELSE /\ enumeration.shown = 0
                 /\ \A j \in 1..Len(devices) :
                       /\ devices[j][1] \in 0..(Len(platform) - 1)
                       /\ platform[devices[j][1] + 1].max_input_channels > 0
                       /\ devices[j][2] = platform[devices[j][1] + 1].name
                 /\ \A j \in 1..(Len(devices) - 1) : devices[j][1] < devices[j + 1][1]
                 /\ \A i \in 1..Len(platform) :
                       platform[i].max_input_channels > 0
                           => \E j \in 1..Len(devices) : devices[j][1] = i - 1

C12_Witness ==
    /\ enumeration.pc = "returned"
    /\ ~enumeration.fails
    /\ Len(enumeration.platform) = MaxDevices
    /\ enumeration.platform[1].max_input_channels = 0
    /\ Len(enumeration.devices) = MaxDevices - 1


StopEndLines == {"183", "185"}

\* C13: stop_recording drains and clears the accumulated chunks: when it has run to
\* its end, with or without chunks, having closed the session's stream, the chunk
\* sequence is empty.  (That nothing else empties it during the session is covered
\* by C14.)
C13_ChunksClearedByStop ==
    [][(/\ ui_pc \in StopEndLines
        /\ ui_pc' = "idle"
        /\ streams # <<>>
        /\ OpenStreams = {}) => recording_data' = <<>>]_vars

IsPrefix(a, b) == Len(a) <= Len(b) /\ SubSeq(b, 1, Len(a)) = a

\* C14: in every step that starts and ends with is_recording true, the chunks before
\* the step are a prefix of the chunks after it.
C14_AppendOnlyWhileRecording ==
    [][(is_recording /\ is_recording') => IsPrefix(recording_data, recording_data')]_vars

\* no start_recording thread is running and the Tk event thread is not in stop_recording
Quiescent == ui_pc = "idle" /\ \A t \in Live : t.kind # "start"

\* C18: no input stream is left open while the session is Idle: in every quiescent
\* state an open stream implies is_recording, and every open stream is the one
\* recording_stream refers to, so that a later stop can close it.
C18_NoStreamLeftOpen ==
    Quiescent =>
        /\ (OpenStreams # {}) => is_recording
        /\ \A s \in OpenStreams : recording_stream = s


\* the number of live threads among those of the set S
InFlight(S) == BagCardinality([t \in S |-> CopiesIn(t, threads)])

\* C15: at most one load_model worker is between its start and its completion, and at
\* most one transcribe worker is inside model.transcribe, in every reachable state.
C15_OneLoadOneTranscribe ==
    /\ InFlight({t \in Live : t.kind = "load"}) <= 1
    /\ InFlight({t \in Live : t.kind = "transcribe" /\ t.pc = "gateway"}) <= 1


\* the lines of the fixed-duration paths at which a thread holds the array of sd.rec
RecordedLines ==
    {"209", "216", "217", "218", "224", "227", "234", "236", "gateway",
     "285", "291", "292", "293", "298", "300", "302"}

\* a thread arrives at the position u in this step
Arrives(u) == CopiesIn(u, threads') > CopiesIn(u, threads)

\* C11: the array a fixed-duration path holds after sd.rec has exactly
\* record_duration * sample_rate frames (5 s at 16000 Hz: 80000); no step of
\* record_and_transcribe or record_audio_only changes is_recording, the accumulated
\* chunks, the open-ended stream reference or the streams; and whatever these are,
\* the path goes on from its first status line to sd.rec.
C11_FixedCaptureBypassesSession ==
    /\ [](\A t \in Live :
             t.kind \in FixedKinds =>
                 /\ t.frames \in {0, record_duration * sample_rate}
                 /\ t.pc \in RecordedLines => t.frames = 80000)
    /\ [][\A t \in Live :
             (t.kind \in FixedKinds /\ Steps(t))
                 => /\ UNCHANGED <<is_recording, recording_data, recording_stream,
                                   streams, delivered>>
                    /\ t.pc \in {"196", "273"}
                           => \E u \in BagToSet(threads') :
                                  Arrives(u) /\ u.pc \in {"206", "282"}]_vars

C11_Witness ==
    \E t \in Live :
        /\ t.kind = "record_and_transcribe"
        /\ t.pc = "216"
        /\ t.frames = 80000
        /\ is_recording
        /\ recording_data # <<>>
        /\ StreamState(recording_stream) = "active"

\* the lines of each saving operation from the open of the artifact on, in the order
\* the claim requires: open, write, flush+fsync, publish the path, and what follows
StopSaveLines == <<"178", "179", "180", "182", "183">>

RatSaveLines == <<"216", "217", "218", "224", "227", "234", "236", "gateway">>

RaoSaveLines == <<"291", "292", "293", "298", "300", "302">>

SaveLines(kind) == IF kind = "record_and_transcribe" THEN RatSaveLines ELSE RaoSaveLines

PublishLines == {"182", "224", "298"}

Follows(order, from, to) ==
    \E i \in 1..(Len(order) - 1) : order[i] = from /\ order[i + 1] = to

Later(order, pc) == \E i \in 2..Len(order) : order[i] = pc

\* C17: in stop_recording and in both fixed-duration paths an operation reaches each
\* line after its open only from the line before it (write after open, flush+fsync
\* after write, publish after flush+fsync, status and model.transcribe after publish),
\* its flush+fsync step leaves the artifact complete, and the operation changes
\* file_path at its publish line only: never after a failed step.
C17_PublishedAfterSync ==
    /\ [][ui_pc' # ui_pc =>
              /\ Later(StopSaveLines, ui_pc') => Follows(StopSaveLines, ui_pc, ui_pc')
              /\ ui_pc' = "182" => fs' = "complete"
              /\ file_path' # file_path => (ui_pc = "182" /\ file_path' = Artifact)
              /\ (status' # status /\ status' = "Audio recorded and saved")
                     => ui_pc = "183"]_vars
    /\ [][\A t \in Live :
             (t.kind \in FixedKinds /\ Steps(t)) =>
                 /\ \A u \in BagToSet(threads') :
                       Arrives(u) =>
                           /\ Later(SaveLines(t.kind), u.pc)
                                  => Follows(SaveLines(t.kind), t.pc, u.pc)
                           /\ u.pc \in PublishLines => fs' = "complete"
                 /\ file_path' # file_path
                        => (t.pc \in PublishLines /\ file_path' = Artifact)
                 /\ (/\ status' # status
                     /\ status' \in {"Transcribing recorded audio...",
                                     "Audio recorded and saved"})
                        => t.pc \in {"234", "302"}]_vars

C17_Witness ==
    /\ ui_pc = "183"
    /\ file_path = Artifact
    /\ \E t \in Live : t.kind = "record_and_transcribe" /\ t.pc = "gateway"


====
